---- MODULE Spec2Model ----
(***************************************************************************)
(* Model of app/page.tsx (component Home): the local state of the chat     *)
(* page, its event handlers, the gates on its controls, the auto-scroll    *)
(* effect and the rendering of message parts, together with the ChatSession*)
(* (useChat) it consumes: the authoritative message list and the status.   *)
(***************************************************************************)
EXTENDS Integers, Sequences, FiniteSets, TLC

VARIABLES
  status,        \* useChat().status; a change of it renders Home at once (only
                 \* the updates of the message list go through the throttle)
  chatMessages,  \* the message list held by the ChatSession (authoritative)
  chatRef,       \* identity of the array chatMessages currently is
  messages,      \* useChat().messages as of the last render (closure of the handlers)
  messagesRef,   \* identity of the array `messages`: the dependency of the scroll effect
  input,         \* useState('') : the pending text, a sequence of characters
  files,         \* useState<FileList | undefined>(undefined)
  fileInputRef,  \* useRef<HTMLInputElement | null>(null).current
  nextId,        \* the id the ChatSession gives the next message it creates
  calls,         \* the ChatSession functions called by the last handled event, in order
  scrolls,       \* number of el.scrollTo invocations made by the last step
  last           \* the last step taken: [ev |-> name, id |-> message id or 0]

vars == <<status, chatMessages, chatRef, messages, messagesRef, input, files,
          fileInputRef, nextId, calls, scrolls, last>>

----------------------------------------------------------------------------
(* Bounds *)

MaxInput == 2
MaxIds == 3
MaxParts == 2

----------------------------------------------------------------------------
(* Values *)

\* Every string-valued field is a sequence of tokens; these three are not text.
Undefined == <<"#undefined">>
Null == <<"#null">>
Throw == <<"#TypeError">>

Statuses == {"ready", "submitted", "streaming", "error"}
Chars == {"a", " "}
Refs == {0, 1, 2}

Strings(n) == UNION {[1..k -> Chars] : k \in 0..n}

----------------------------------------------------------------------------
(* String.prototype.trim and truthiness of a string *)

IsWhiteSpace(c) == c \in {" ", "\t", "\n", "\r"}

RECURSIVE trimStart(_)
trimStart(s) ==
  IF s = <<>> THEN s
  ELSE IF IsWhiteSpace(Head(s)) THEN trimStart(Tail(s)) ELSE s

RECURSIVE trimEnd(_)
trimEnd(s) ==
  IF s = <<>> THEN s
  ELSE IF IsWhiteSpace(s[Len(s)]) THEN trimEnd(SubSeq(s, 1, Len(s) - 1)) ELSE s

trim(s) == trimEnd(trimStart(s))

Truthy(s) == s # <<>>

----------------------------------------------------------------------------
(* Messages and parts, as the ChatSession stores them *)

Part(type, text, mediaType, url, filename, title, id) ==
  [type |-> type, text |-> text, mediaType |-> mediaType, url |-> url,
   filename |-> filename, title |-> title, id |-> id]

TextPart(t) == Part("text", t, Undefined, Undefined, Undefined, Undefined, Undefined)

Message(id, role, parts) == [id |-> id, role |-> role, parts |-> parts]

\* The parts a streamed chunk may add to the assistant message in the main model.
StreamParts == {TextPart(<<"a">>)}

Ids(list) == {list[i].id : i \in 1..Len(list)}

\* A new array never is the array the ChatSession holds nor the rendered one.
FreshRef == CHOOSE r \in Refs : r # chatRef /\ r # messagesRef

----------------------------------------------------------------------------
(* The gates of the controls: the `disabled` attributes and conditional blocks *)

SendDisabled_Mutant(st) == st = "streaming"
SendDisabled(st) == st # "ready"

InputDisabled(st) == st # "ready"

StopDisabled_Mutant(st) == ~(st = "streaming")
StopDisabled(st) == ~(st = "streaming" \/ st = "submitted")

RegenerateDisabled_Mutant(st) == ~(st = "ready" \/ st = "error" \/ st = "submitted")
RegenerateDisabled(st) == ~(st = "ready" \/ st = "error")

\* The block above the form: the Loading indicator and the second Stop button.
StopBannerShown(st) == st = "submitted" \/ st = "streaming"
LoadingShown(st) == StopBannerShown(st) /\ st = "submitted"

----------------------------------------------------------------------------
(* The auto-scroll effect: useEffect(..., [messages]) *)

chatContainerRef == <<"main">>

ScrollEffect_EveryRender(prevDep, dep, list) ==
  IF chatContainerRef = Null THEN 0 ELSE 1
\* Runs after a render whose `messages` is another array than the previous
\* render's; returns the number of scrollTo invocations.
ScrollEffect(prevDep, dep, list) ==
  IF dep = prevDep THEN 0
  ELSE IF chatContainerRef = Null THEN 0 ELSE 1

\* A render of Home: useChat returns the ChatSession's current list, then the
\* effects run.
Render(list, ref) ==
  /\ messages' = list
  /\ messagesRef' = ref
  /\ scrolls' = ScrollEffect(messagesRef, ref, list)

NoRender ==
  /\ UNCHANGED <<messages, messagesRef>>
  /\ scrolls' = 0

----------------------------------------------------------------------------
(* The form: onChange, onSubmit *)

SubmitAllowed_Mutant(inp) == Truthy(inp)
SubmitAllowed(inp) == Truthy(trim(inp))

SendPayload_Mutant(inp, fs) == [text |-> trim(inp)]
SendPayload(inp, fs) == [text |-> inp]

Call(fn, payload) == [fn |-> fn, payload |-> payload, status |-> status]

\* The text part of a user message the ChatSession builds from the payload's
\* text. Home reads it only to show it: the list keeps one text for all of them.
UserText == <<"a">>

\* ChatSession.sendMessage: the user message is appended and a request starts.
SessionSend(payload) ==
  /\ chatMessages' = Append(chatMessages,
                            Message(nextId, "user", <<TextPart(UserText)>>))
  /\ chatRef' = FreshRef
  /\ nextId' = nextId + 1
  /\ status' = "submitted"

onSubmit ==
  /\ IF SubmitAllowed(input)
     THEN /\ nextId <= MaxIds
          /\ calls' = <<Call("sendMessage", SendPayload(input, files))>>
          /\ SessionSend(SendPayload(input, files))
          /\ input' = <<>>
          /\ Render(chatMessages', chatRef')
     ELSE /\ calls' = <<>>
          /\ NoRender
          /\ UNCHANGED <<status, chatMessages, chatRef, nextId, input>>
  /\ UNCHANGED <<files, fileInputRef>>
  /\ last' = [ev |-> "submit", id |-> 0]

\* The Send button submits the form.
ClickSend ==
  /\ ~SendDisabled(status)
  /\ onSubmit

\* Enter in the text input submits the form through its default button.
PressEnter ==
  /\ ~InputDisabled(status)
  /\ ~SendDisabled(status)
  /\ onSubmit

SetInput(s) ==
  /\ ~InputDisabled(status)
  /\ s # input
  /\ input' = s
  /\ calls' = <<>>
  /\ Render(chatMessages, chatRef)
  /\ last' = [ev |-> "input", id |-> 0]
  /\ UNCHANGED <<status, chatMessages, chatRef, files, fileInputRef, nextId>>

----------------------------------------------------------------------------
(* Delete *)

FilterOut_Mutant(list, id) == SelectSeq(list, LAMBDA msg : msg.id = id)
FilterOut(list, id) == SelectSeq(list, LAMBDA msg : msg.id # id)

\* setMessages(messages.filter(...)): the ChatSession's list is replaced by a
\* new array; subscribers are notified through the throttle.
handleDelete(id) ==
  /\ chatMessages' = FilterOut(messages, id)
  /\ chatRef' = FreshRef
  /\ calls' = <<Call("setMessages", [messages |-> FilterOut(messages, id)])>>
  /\ NoRender
  /\ last' = [ev |-> "delete", id |-> id]
  /\ UNCHANGED <<status, input, files, fileInputRef, nextId>>

ClickDelete(id) ==
  /\ id \in Ids(messages)
  /\ handleDelete(id)

----------------------------------------------------------------------------
(* Stop and Regenerate *)

SessionStop ==
  /\ status' = "ready"
  /\ UNCHANGED <<chatMessages, chatRef, nextId>>

ClickStop ==
  /\ ~StopDisabled(status)
  /\ calls' = <<Call("stop", [event |-> "click"])>>
  /\ SessionStop
  /\ Render(chatMessages, chatRef)
  /\ last' = [ev |-> "stop", id |-> 0]
  /\ UNCHANGED <<input, files, fileInputRef>>

ClickBannerStop ==
  /\ StopBannerShown(status)
  /\ calls' = <<Call("stop", [event |-> "none"])>>
  /\ SessionStop
  /\ Render(chatMessages, chatRef)
  /\ last' = [ev |-> "stop", id |-> 0]
  /\ UNCHANGED <<input, files, fileInputRef>>

\* ChatSession.regenerate: the last message, when it is the assistant's, is
\* dropped and a request starts; with no message at all the call is rejected.
SessionRegenerate ==
  IF chatMessages = <<>>
  THEN UNCHANGED <<status, chatMessages, chatRef, nextId>>
  ELSE /\ chatMessages' =
            IF chatMessages[Len(chatMessages)].role = "assistant"
            THEN SubSeq(chatMessages, 1, Len(chatMessages) - 1)
            ELSE chatMessages
       /\ chatRef' = FreshRef
       /\ status' = "submitted"
       /\ UNCHANGED nextId

ClickRegenerate ==
  /\ ~RegenerateDisabled(status)
  /\ calls' = <<Call("regenerate", [event |-> "click"])>>
  /\ SessionRegenerate
  /\ Render(chatMessages', chatRef')
  /\ last' = [ev |-> "regenerate", id |-> 0]
  /\ UNCHANGED <<input, files, fileInputRef>>

----------------------------------------------------------------------------
(* The ChatSession: the response stream *)

\* The first chunk of the response: a new assistant message; status changes,
\* so Home renders.
StreamStart(p) ==
  /\ status = "submitted"
  /\ nextId <= MaxIds
  /\ chatMessages' = Append(chatMessages, Message(nextId, "assistant", <<p>>))
  /\ chatRef' = FreshRef
  /\ nextId' = nextId + 1
  /\ status' = "streaming"
  /\ calls' = <<>>
  /\ Render(chatMessages', chatRef')
  /\ last' = [ev |-> "start", id |-> 0]
  /\ UNCHANGED <<input, files, fileInputRef>>

\* A later chunk: the assistant message grows by a part. The notification is
\* throttled (experimental_throttle), so Home does not render in this step.
StreamChunk(p) ==
  /\ status = "streaming"
  /\ chatMessages # <<>>
  /\ chatMessages[Len(chatMessages)].role = "assistant"
  /\ Len(chatMessages[Len(chatMessages)].parts) < MaxParts
  /\ chatMessages' =
       [chatMessages EXCEPT ![Len(chatMessages)].parts = Append(@, p)]
  /\ chatRef' = FreshRef
  /\ calls' = <<>>
  /\ NoRender
  /\ last' = [ev |-> "chunk", id |-> 0]
  /\ UNCHANGED <<status, input, files, fileInputRef, nextId>>

StreamFinish ==
  /\ status = "streaming"
  /\ status' = "ready"
  /\ calls' = <<>>
  /\ Render(chatMessages, chatRef)
  /\ last' = [ev |-> "finish", id |-> 0]
  /\ UNCHANGED <<chatMessages, chatRef, input, files, fileInputRef, nextId>>

StreamError ==
  /\ status \in {"submitted", "streaming"}
  /\ status' = "error"
  /\ calls' = <<>>
  /\ Render(chatMessages, chatRef)
  /\ last' = [ev |-> "error", id |-> 0]
  /\ UNCHANGED <<chatMessages, chatRef, input, files, fileInputRef, nextId>>

\* The throttled notification of a change of the list arrives: Home renders.
ThrottledRender ==
  /\ messagesRef # chatRef
  /\ calls' = <<>>
  /\ Render(chatMessages, chatRef)
  /\ last' = [ev |-> "render", id |-> 0]
  /\ UNCHANGED <<status, chatMessages, chatRef, input, files, fileInputRef, nextId>>

----------------------------------------------------------------------------
(* The page after its first render *)

Init ==
  /\ status = "ready"
  /\ chatMessages = <<>>
  /\ chatRef = 0
  /\ messages = <<>>
  /\ messagesRef = 0
  /\ input = <<>>
  /\ files = Undefined
  /\ fileInputRef = Null
  /\ nextId = 1
  /\ calls = <<>>
  /\ scrolls = 0
  /\ last = [ev |-> "mount", id |-> 0]

Next ==
  \/ \E s \in Strings(MaxInput) : SetInput(s)
  \/ ClickSend
  \/ PressEnter
  \/ \E id \in 1..MaxIds : ClickDelete(id)
  \/ ClickStop
  \/ ClickBannerStop
  \/ ClickRegenerate
  \/ \E p \in StreamParts : StreamStart(p)
  \/ \E p \in StreamParts : StreamChunk(p)
  \/ StreamFinish
  \/ StreamError
  \/ ThrottledRender

Spec == Init /\ [][Next]_vars

----------------------------------------------------------------------------
(* The handlers alone, called on every local state: any status, any pending  *)
(* text, any rendered list with unique ids, any id.                          *)

MessageUniverse ==
  {Message(id, role, <<TextPart(UserText)>>) :
     id \in 1..MaxIds, role \in {"user", "assistant"}}

UniqueIds(list) == \A i, j \in 1..Len(list) : list[i].id = list[j].id => i = j

MessageLists ==
  {l \in UNION {[1..k -> MessageUniverse] : k \in 0..MaxIds} : UniqueIds(l)}

MaxId(list) == IF list = <<>> THEN 0
               ELSE CHOOSE n \in Ids(list) : \A m \in Ids(list) : m <= n

InitHandlers ==
  /\ status \in Statuses
  /\ messages \in MessageLists
  /\ chatMessages = messages
  /\ chatRef = 0
  /\ messagesRef = 0
  /\ input \in Strings(MaxInput)
  /\ files = Undefined
  /\ fileInputRef = Null
  /\ nextId = MaxId(messages) + 1
  /\ calls = <<>>
  /\ scrolls = 0
  /\ last = [ev |-> "mount", id |-> 0]

NextHandlers ==
  \/ onSubmit
  \/ \E id \in 1..MaxIds : handleDelete(id)

SpecHandlers == InitHandlers /\ [][NextHandlers]_vars

----------------------------------------------------------------------------
(* Rendering of the parts of a message: message.parts.map(...)               *)
(* A URL and a media type are sequences of tokens.                           *)

Nullish(x) == x = Undefined \/ x = Null

SpecialSchemes == {"https", "http"}
Schemes == SpecialSchemes \cup {"mailto"}

\* new URL(u).hostname with no base: the string must start with a scheme and
\* ":"; a special scheme needs "//" and a host. undefined is parsed as the
\* string "undefined". Returns the hostname, or Throw.
URLHostname(u) ==
  LET str == IF u = Undefined THEN <<"undefined">> ELSE u
  IN IF Len(str) < 2 \/ str[1] \notin Schemes \/ str[2] # ":" THEN Throw
     ELSE IF str[1] \in SpecialSchemes
          THEN (IF Len(str) >= 4 /\ str[3] = "//" /\ str[4] \notin {"/", "//", ":"}
                THEN <<str[4]>> ELSE Throw)
          ELSE <<>>

\* part.mediaType?.startsWith('image/')
IsImage(mediaType) ==
  IF Nullish(mediaType) THEN FALSE
  ELSE Len(mediaType) >= 1 /\ mediaType[1] = "image/"

Node(tag, content, ref, alt) ==
  [tag |-> tag, content |-> content, ref |-> ref, alt |-> alt]

\* What a part renders to when it renders nothing, and when rendering it raises.
NoNode == Node("#null", Undefined, Undefined, Undefined)
Raised == Node("#throw", Undefined, Undefined, Undefined)

\* part.title ?? new URL(part.url).hostname
SourceUrlLabel(part) ==
  IF ~Nullish(part.title) THEN part.title ELSE URLHostname(part.url)

\* The element one part renders to.
renderPart(part) ==
  IF part.type = "text" THEN Node("span", part.text, Undefined, Undefined)
  ELSE IF part.type = "reasoning" THEN Node("pre", part.text, Undefined, Undefined)
  ELSE IF part.type = "file" THEN
    IF IsImage(part.mediaType)
    THEN Node("img", Undefined, part.url,
              IF Nullish(part.filename) THEN <<"generated image">> ELSE part.filename)
    ELSE Node("a", IF Nullish(part.filename) THEN part.url ELSE part.filename,
              part.url, Undefined)
  ELSE IF part.type = "source-url" THEN
    IF SourceUrlLabel(part) = Throw THEN Raised
    ELSE Node("Source: a", SourceUrlLabel(part), part.url, Undefined)
  ELSE IF part.type = "source-document" THEN
    Node("Document: ",
         IF Nullish(part.title) THEN <<"Document ">> \o part.id ELSE part.title,
         Undefined, Undefined)
  ELSE NoNode

\* The elements of one message, one per part and in the parts' order; the
\* render raises when that of a part does.
renderParts(message) ==
  [threw |-> \E i \in 1..Len(message.parts) : renderPart(message.parts[i]) = Raised,
   nodes |-> [i \in 1..Len(message.parts) |-> renderPart(message.parts[i])]]

\* messages.map(...): the render of Home raises when that of a message does,
\* and then shows nothing.
renderMessages(list) ==
  IF \E i \in 1..Len(list) : renderParts(list[i]).threw
  THEN [threw |-> TRUE, out |-> <<>>]
  ELSE [threw |-> FALSE, out |-> [i \in 1..Len(list) |-> renderParts(list[i]).nodes]]

UrlOk == <<"https", ":", "//", "example.com", "/", "doc">>
UrlRelative == <<"/", "doc">>

\* The parts a response may carry: every recognized tag, with and without its
\* optional fields, and a tag Home does not know.
ResponseParts ==
  << TextPart(<<"a">>),
     Part("reasoning", <<"a">>, Undefined, Undefined, Undefined, Undefined, Undefined),
     Part("file", Undefined, <<"image/", "png">>, UrlOk, <<"f.png">>, Undefined, Undefined),
     Part("file", Undefined, <<"text/", "plain">>, UrlOk, Undefined, Undefined, Undefined),
     Part("file", Undefined, Undefined, Undefined, Undefined, Undefined, Undefined),
     Part("source-url", Undefined, Undefined, UrlOk, Undefined, <<"title">>, Undefined),
     Part("source-url", Undefined, Undefined, UrlOk, Undefined, Undefined, Undefined),
     Part("source-url", Undefined, Undefined, UrlRelative, Undefined, Undefined, Undefined),
     Part("source-url", Undefined, Undefined, UrlRelative, Undefined, <<"title">>, Undefined),
     Part("source-document", Undefined, Undefined, Undefined, Undefined, <<"title">>, <<"d1">>),
     Part("source-document", Undefined, Undefined, Undefined, Undefined, Undefined, <<"d1">>),
     Part("step-start", Undefined, Undefined, Undefined, Undefined, Undefined, Undefined) >>

\* The page once the user has sent a first message: the request is pending.
InitRender ==
  /\ status = "submitted"
  /\ chatMessages = <<Message(1, "user", <<TextPart(UserText)>>)>>
  /\ chatRef = 1
  /\ messages = chatMessages
  /\ messagesRef = 1
  /\ input = <<>>
  /\ files = Undefined
  /\ fileInputRef = Null
  /\ nextId = 2
  /\ calls = <<[fn |-> "sendMessage", payload |-> [text |-> <<"a">>], status |-> "ready"]>>
  /\ scrolls = 1
  /\ last = [ev |-> "submit", id |-> 0]

NextRender ==
  \/ \E k \in 1..Len(ResponseParts) : StreamStart(ResponseParts[k])
  \/ \E k \in 1..Len(ResponseParts) : StreamChunk(ResponseParts[k])
  \/ StreamFinish
  \/ ThrottledRender
  \/ ClickRegenerate

SpecRender == InitRender /\ [][NextRender]_vars

----------------------------------------------------------------------------
(* Properties *)

IsBlank(s) == \A i \in 1..Len(s) : IsWhiteSpace(s[i])

SendEnabled == ~SendDisabled(status)
StopEnabled == ~StopDisabled(status)
StopOff == StopDisabled(status) /\ ~StopBannerShown(status)
RegenerateEnabled == ~RegenerateDisabled(status)

\* C1, as stated: in every state the controls follow the gate table of section
\* 4.3: ready => Send on, Stop off, Regenerate off; submitted => Send off,
\* Stop on, Regenerate off, Loading shown; streaming => Send off, Stop on,
\* Regenerate off; error => Send off, Stop off, Regenerate on.
C1_GateTableAsStated ==
  /\ status = "ready" => SendEnabled /\ StopOff /\ ~RegenerateEnabled
  /\ status = "submitted" =>
       ~SendEnabled /\ StopEnabled /\ ~RegenerateEnabled /\ LoadingShown(status)
  /\ status = "streaming" => ~SendEnabled /\ StopEnabled /\ ~RegenerateEnabled
  /\ status = "error" => ~SendEnabled /\ StopOff /\ RegenerateEnabled

\* C1, amended: the same table, but with Regenerate enabled in ready:
\* ready => Send on, Stop off, Regenerate on; submitted => Send off, Stop on,
\* Regenerate off, Loading shown; streaming => Send off, Stop on,
\* Regenerate off; error => Send off, Stop off, Regenerate on.
C1_GateTable ==
  /\ status = "ready" => SendEnabled /\ StopOff /\ RegenerateEnabled
  /\ status = "submitted" =>
       ~SendEnabled /\ StopEnabled /\ ~RegenerateEnabled /\ LoadingShown(status)
  /\ status = "streaming" => ~SendEnabled /\ StopEnabled /\ ~RegenerateEnabled
  /\ status = "error" => ~SendEnabled /\ StopOff /\ RegenerateEnabled

\* The page is ready again after a response has streamed to its end.
C1_Witness ==
  /\ status = "ready"
  /\ last.ev = "finish"
  /\ SendEnabled /\ StopOff /\ RegenerateEnabled

\* C2: a submit whose pending text is empty or all whitespace calls nothing on
\* the ChatSession, changes neither the status nor the message list (no error
\* is surfaced) and leaves the pending text as it is, in every status.
C2_BlankSubmitIsNoOp ==
  [][(last'.ev = "submit" /\ IsBlank(input)) =>
       /\ calls' = <<>>
       /\ input' = input
       /\ status' = status
       /\ chatMessages' = chatMessages]_vars

\* A whitespace-only text was submitted while a response was streaming.
C2_Witness ==
  /\ last.ev = "submit"
  /\ calls = <<>>
  /\ input = <<" ", " ">>
  /\ status = "streaming"

\* C3: a submit whose pending text has a non-whitespace character calls
\* sendMessage exactly once, with the text as typed (untrimmed), and the pending
\* text is empty afterwards.
C3_SubmitSendsTextAsTyped ==
  [][(last'.ev = "submit" /\ ~IsBlank(input)) =>
       /\ Len(calls') = 1
       /\ calls'[1].fn = "sendMessage"
       /\ calls'[1].payload.text = input
       /\ input' = <<>>]_vars

\* A text with a leading space was sent as typed.
C3_Witness ==
  /\ last.ev = "submit"
  /\ Len(calls) = 1
  /\ calls[1].fn = "sendMessage"
  /\ calls[1].payload.text = <<" ", "a">>
  /\ input = <<>>

\* `result` is `list` without its message `id`: the others, in their order.
IsListMinus(result, list, id) ==
  LET at == {i \in 1..Len(list) : list[i].id = id}
  IN IF at = {} THEN result = list
     ELSE LET k == CHOOSE i \in at : TRUE
          IN /\ Len(result) = Len(list) - 1
             /\ \A i \in 1..Len(result) :
                  result[i] = IF i < k THEN list[i] ELSE list[i + 1]

\* C4: handleDelete(id) replaces the list by the list it was given (ids
\* unique) minus exactly the message with that id, the others kept in their
\* order; with no such message the list is the same.
C4_DeleteRemovesExactlyThatMessage ==
  last.ev = "delete" =>
    /\ UniqueIds(messages)
    /\ IsListMinus(chatMessages, messages, last.id)
    /\ Len(calls) = 1 /\ calls[1].fn = "setMessages"
    /\ calls[1].payload.messages = chatMessages

\* The second of three messages was deleted.
C4_Witness ==
  /\ last.ev = "delete"
  /\ Len(messages) = 3
  /\ last.id = messages[2].id
  /\ chatMessages = <<messages[1], messages[3]>>

\* C5: Regenerate is enabled exactly in ready and error, and regenerate() is
\* never called from submitted or streaming.
C5_RegenerateGate ==
  /\ RegenerateEnabled <=> status \in {"ready", "error"}
  /\ \A i \in 1..Len(calls) :
       calls[i].fn = "regenerate" => calls[i].status \in {"ready", "error"}

\* Regenerate was clicked after an error.
C5_Witness ==
  /\ last.ev = "regenerate"
  /\ Len(calls) = 1
  /\ calls[1].fn = "regenerate"
  /\ calls[1].status = "error"
  /\ status = "submitted"

\* C6: sendMessage is only ever called while the status is ready.
C6_SendOnlyWhenReady ==
  \A i \in 1..Len(calls) :
    calls[i].fn = "sendMessage" => calls[i].status = "ready"

\* A second message was sent after a complete response.
C6_Witness ==
  /\ last.ev = "submit"
  /\ Len(calls) = 1
  /\ calls[1].fn = "sendMessage"
  /\ Len(chatMessages) = 3
  /\ chatMessages[2].role = "assistant"

\* C7, as stated: the payload of every sendMessage call carries the pending
\* attachments beside the text, and after the submit the attachments are
\* empty and no file stays selected in the file input.
C7_SubmitForwardsAttachments ==
  \A i \in 1..Len(calls) :
    calls[i].fn = "sendMessage" =>
      /\ "text" \in DOMAIN calls[i].payload
      /\ "files" \in DOMAIN calls[i].payload
      /\ files = Undefined
      /\ fileInputRef \in {Null, <<>>}

RecognizedTypes == {"text", "reasoning", "file", "source-url", "source-document"}

RemoveAt(seq, k) == SubSeq(seq, 1, k - 1) \o SubSeq(seq, k + 1, Len(seq))

\* C8, as stated: no part makes the render raise; a part with an unknown tag
\* renders nothing and a recognized one renders an element, whatever fields
\* it lacks; and with any one part taken away, whenever the rest renders, the
\* whole renders too, to the same elements for all the other parts and
\* messages.
C8_RenderNeverFailsOnAPart ==
  \A mi \in 1..Len(messages) : \A pi \in 1..Len(messages[mi].parts) :
    LET part == messages[mi].parts[pi]
        full == renderMessages(messages)
        rest == renderMessages([messages EXCEPT ![mi].parts = RemoveAt(@, pi)])
    IN /\ renderPart(part) # Raised
       /\ part.type \notin RecognizedTypes => renderPart(part) = NoNode
       /\ part.type \in RecognizedTypes => renderPart(part) # NoNode
       /\ ~rest.threw =>
            /\ ~full.threw
            /\ [full.out EXCEPT ![mi] = RemoveAt(@, pi)] = rest.out

\* C9: a step scrolls exactly once when it renders Home with another message
\* array than the previous render's, whatever the number of parts, and not at
\* all otherwise; every change of the rendered list's content is such a step.
C9_OneScrollPerRenderedChange ==
  [][/\ scrolls' = (IF messagesRef' # messagesRef THEN 1 ELSE 0)
     /\ messages' # messages => messagesRef' # messagesRef]_vars

\* The throttled render of a streamed update of a message with two parts
\* scrolled once.
C9_Witness ==
  /\ last.ev = "render"
  /\ scrolls = 1
  /\ messages # <<>>
  /\ Len(messages[Len(messages)].parts) >= 2
  /\ status = "streaming"

Without(list, id) == SelectSeq(list, LAMBDA msg : msg.id # id)

\* C10, as stated: a Delete click changes the ChatSession's list to that list,
\* as it is at the click, minus the clicked message: nothing else is dropped,
\* reverted or reordered.
C10_DeleteKeepsAuthoritativeList ==
  [][last'.ev = "delete" => chatMessages' = Without(chatMessages, last'.id)]_vars

====
